---- MODULE Spec2Model ----
(***************************************************************************)
(* Model of the two scripts of the repository:                             *)
(*   Testing.py  - the dev-launcher (prints instructions, runs npm run dev)*)
(*   server.py   - builds the bundle, then serves dist/ through Flask      *)
(* A run of the program is a run of one of the two scripts.                *)
(*                                                                         *)
(* Paths are sequences of path segments.  The file system is a function    *)
(* from absolute paths to "dir" or to the bytes of a regular file; it has  *)
(* no symbolic links.  Strings that the code searches (Content-Type) are   *)
(* tuples of characters.                                                   *)
(***************************************************************************)
EXTENDS Integers, Sequences, FiniteSets, TLC

\* ------------------------------------------------------------------ bounds
MaxDepth == 2          \* longest request path, in segments
NumThreads == 2        \* handler threads of the threaded listener
MaxChildCode == 2      \* exit codes 0..MaxChildCode of the npm child

\* --------------------------------------------------------- path segments
Segs == {"index.html", "style.css", "assets", "dist", "server.py", ".."}

RECURSIVE SeqsUpTo(_)
SeqsUpTo(n) ==
    IF n = 0 THEN {<<>>}
    ELSE LET shorter == SeqsUpTo(n - 1)
         IN  shorter \cup {Append(q, s) : q \in {r \in shorter : Len(r) = n - 1}, s \in Segs}

\* every request path the URL rule '/<path:path>' (or '/') can deliver
Paths == SeqsUpTo(MaxDepth)

Front(q) == SubSeq(q, 1, Len(q) - 1)

\* ------------------------------------------------------------ file system
Dir == "dir"
AppRoot == <<"app">>
\* app.static_folder: root_path joined with 'dist'
static_folder == <<"app", "dist">>

BaseEntries ==
    (<<>> :> Dir) @@ (AppRoot :> Dir) @@ (<<"app", "server.py">> :> "bytes of server.py")
    @@ (static_folder :> Dir)

IndexEntry == (<<"app", "dist", "index.html">> :> "bytes of index.html")
StyleEntry == (<<"app", "dist", "style.css">> :> "bytes of style.css")
AssetsEntries ==
    (<<"app", "dist", "assets">> :> Dir)
    @@ (<<"app", "dist", "assets", "style.css">> :> "bytes of assets/style.css")

\* a directory inside the tree named like the static URL prefix
NestedEntries ==
    (<<"app", "dist", "dist">> :> Dir)
    @@ (<<"app", "dist", "dist", "style.css">> :> "bytes of dist/style.css")

NoEntries == [x \in {} |-> Dir]

\* the asset trees a build can leave behind (the rest of the disk is fixed)
Trees ==
    { BaseEntries @@ i @@ s @@ a @@ n :
        i \in {NoEntries, IndexEntry}, s \in {NoEntries, StyleEntry},
        a \in {NoEntries, AssetsEntries}, n \in {NoEntries, NestedEntries} }

FullTree == BaseEntries @@ IndexEntry @@ StyleEntry @@ AssetsEntries @@ NestedEntries

IsDir(fs, abs) == abs \in DOMAIN fs /\ fs[abs] = Dir
isfile(fs, abs) == abs \in DOMAIN fs /\ fs[abs] # Dir

\* Path resolution as the operating system does it: every component but the
\* last must be an existing directory, '..' is the parent ('/' at the root).
RECURSIVE Walk(_, _, _)
Walk(fs, cur, segs) ==
    IF segs = <<>> THEN [ok |-> cur \in DOMAIN fs, at |-> cur]
    ELSE IF ~IsDir(fs, cur) THEN [ok |-> FALSE, at |-> cur]
    ELSE LET s == Head(segs)
             nxt == IF s = ".." THEN (IF cur = <<>> THEN cur ELSE Front(cur))
                    ELSE Append(cur, s)
         IN  Walk(fs, nxt, Tail(segs))

\* os.path.exists(os.path.join(directory, path))
exists(fs, directory, path) == Walk(fs, directory, path).ok

\* posixpath.normpath of a relative path: a name followed by '..' cancels,
\* leading '..' segments stay
RECURSIVE NormInto(_, _)
NormInto(acc, segs) ==
    IF segs = <<>> THEN acc
    ELSE LET s == Head(segs)
         IN  IF s = ".." /\ acc # <<>> /\ acc[Len(acc)] # ".."
             THEN NormInto(Front(acc), Tail(segs))
             ELSE NormInto(Append(acc, s), Tail(segs))

normpath(path) == NormInto(<<>>, path)

\* werkzeug safe_join: None when the normalised path leaves the directory
safe_join(directory, path) ==
    LET n == normpath(path)
    IN  IF n # <<>> /\ n[1] = ".." THEN [ok |-> FALSE, at |-> directory]
        ELSE [ok |-> TRUE, at |-> directory \o n]

\* ------------------------------------------------------------- responses
TextHtml == <<"t","e","x","t","/","h","t","m","l",";"," ","c","h","a","r","s","e","t","=","u","t","f","-","8">>
TextCss == <<"t","e","x","t","/","c","s","s",";"," ","c","h","a","r","s","e","t","=","u","t","f","-","8">>
TextPython == <<"t","e","x","t","/","x","-","p","y","t","h","o","n",";"," ","c","h","a","r","s","e","t","=","u","t","f","-","8">>
OctetStream == <<"a","p","p","l","i","c","a","t","i","o","n","/","o","c","t","e","t","-","s","t","r","e","a","m">>

\* mimetypes.guess_type on the file name, as send_file uses it
guess_type(name) ==
    CASE name = "index.html" -> TextHtml
      [] name = "style.css" -> TextCss
      [] name = "server.py" -> TextPython
      [] OTHER -> OctetStream

Response(status, body, ctype) ==
    [status |-> status, body |-> body, headers |-> ("Content-Type" :> ctype)]

NotFound == Response(404, "404 Not Found page", TextHtml)
InternalServerError == Response(500, "500 Internal Server Error page", TextHtml)

\* flask.send_file: a missing file or a directory raises, which Flask turns
\* into a 500 response
send_file(fs, abs) ==
    IF isfile(fs, abs) THEN Response(200, fs[abs], guess_type(abs[Len(abs)]))
    ELSE InternalServerError

\* sending whatever the joined path names, without safe_join
send_from_directory_unsafe(fs, directory, path) ==
    LET w == Walk(fs, directory, path)
    IN  IF w.ok /\ isfile(fs, w.at) THEN send_file(fs, w.at) ELSE NotFound

\* flask.send_from_directory
send_from_directory(fs, directory, path) ==
    LET j == safe_join(directory, path)
    IN  IF ~j.ok THEN NotFound
        ELSE IF ~isfile(fs, j.at) THEN NotFound
        ELSE send_file(fs, j.at)

\* serve testing the path against the working directory, not the asset tree
serve_cwd(fs, path) ==
    IF path # <<>> /\ exists(fs, AppRoot, path)
    THEN send_from_directory(fs, static_folder, path)
    ELSE send_file(fs, static_folder \o <<"index.html">>)

\* server.py serve(path)
serve(fs, path) ==
    IF path # <<>> /\ exists(fs, static_folder, path)
    THEN send_from_directory(fs, static_folder, path)
    ELSE send_file(fs, static_folder \o <<"index.html">>)

\* Flask(__name__, static_folder='dist') also registers the static rule
\* '/dist/<path:filename>' (view send_static_file); with its static prefix it
\* is matched before the catch-all rule of serve
send_static_file(fs, filename) == send_from_directory(fs, static_folder, filename)

dispatch_request(fs, path) ==
    IF Len(path) >= 2 /\ path[1] = "dist" THEN send_static_file(fs, Tail(path))
    ELSE serve(fs, path)

\* 'assets' in <string>
Assets == <<"a","s","s","e","t","s">>
\* <string>.startswith('assets')
Contains_prefix(s, t) == Len(s) >= Len(t) /\ SubSeq(s, 1, Len(t)) = t
Contains(s, t) == \E i \in 1..(Len(s) - Len(t) + 1) : SubSeq(s, i, i + Len(t) - 1) = t

\* headers.get(key, default)
Get(headers, key, default) == IF key \in DOMAIN headers THEN headers[key] ELSE default

LongCache == "public, max-age=31536000"
NoCache == "no-cache"

\* server.py add_header(response), the after_request hook
add_header(response) ==
    LET cc == IF Contains(Get(response.headers, "Content-Type", <<>>), Assets)
              THEN LongCache ELSE NoCache
    IN  [response EXCEPT !.headers =
            ("Cache-Control" :> cc) @@ ("X-Content-Type-Options" :> "nosniff")
            @@ ("X-Frame-Options" :> "DENY") @@ ("X-XSS-Protection" :> "1; mode=block")
            @@ @]

\* the hook skipped for error responses
wsgi_app_unhooked_errors(fs, path) ==
    LET r == dispatch_request(fs, path)
    IN  IF r.status = 200 THEN add_header(r) ELSE r

\* one request through the application: view function (or the error response
\* Flask makes of its exception), then the after_request hook
wsgi_app(fs, path) == add_header(dispatch_request(fs, path))

\* ------------------------------------------------------------------ state
VARIABLES
    script,       \* which of the two scripts this process runs
    pc,           \* position of the main thread in the script
    out,          \* messages printed so far
    exitCode,     \* exit status of the process, Running while it runs
    fault,        \* what ended the process abnormally, "none" otherwise
    ints,         \* positions at which an interrupt signal has arrived
    child,        \* Testing.py: the 'npm run dev' child process
    childCode,    \* Testing.py: exit code of the child once it has exited
    spawned,      \* Testing.py: number of child processes started
    fs,           \* the disk
    buildStatus,  \* server.py: what os.system('npm run build') returned
    conn,         \* server.py: last request answered and its response
    thr,          \* server.py: handler threads of the threaded listener
    probe         \* add_header applied to a response on its own

vars == <<script, pc, out, exitCode, fault, ints, child, childCode, spawned,
          fs, buildStatus, conn, thr, probe>>

Running == -1
NotRun == -1
Threads == 1..NumThreads

NoHeaders == [x \in {} |-> ""]
NoResponse == [status |-> 0, body |-> "", headers |-> NoHeaders]
NoConn == [path |-> <<>>, resp |-> NoResponse]
Idle == [st |-> "idle", path |-> <<>>, ex |-> FALSE, resp |-> NoResponse]
NoProbe ==
    [path |-> <<>>, before |-> NoResponse, assets |-> FALSE, after |-> NoResponse,
     done |-> FALSE]

\* exit status of a Python process ended by an uncaught KeyboardInterrupt
\* (1, or death by SIGINT seen as 130, depending on the interpreter)
UncaughtInterrupt == {1, 130}

\* statuses os.system can return for the build: success, failure, and the
\* shell's "command not found"
BuildStatuses == {0, 1, 127}

Init ==
    /\ script \in {"Testing.py", "server.py"}
    /\ pc = IF script = "Testing.py" THEN "print" ELSE "banner"
    /\ out = <<>>
    /\ exitCode = Running
    /\ fault = "none"
    /\ ints = {}
    /\ child = "none"
    /\ childCode = NotRun
    /\ spawned = 0
    /\ fs \in IF script = "Testing.py" THEN {FullTree} ELSE Trees
    /\ buildStatus = NotRun
    /\ conn = NoConn
    /\ thr = [t \in Threads |-> Idle]
    /\ probe = NoProbe

\* ----------------------------------------------------------- Testing.py
\* lines 5-14
PrintInstructions ==
    /\ script = "Testing.py" /\ pc = "print"
    /\ out' = Append(out, "instructions")
    /\ pc' = "try"
    /\ UNCHANGED <<script, exitCode, fault, ints, child, childCode, spawned,
                   fs, buildStatus, conn, thr, probe>>

\* line 17, subprocess.run starts npm
SpawnChild ==
    /\ script = "Testing.py" /\ pc = "try"
    /\ child' = "running"
    /\ spawned' = spawned + 1
    /\ pc' = "run"
    /\ UNCHANGED <<script, out, exitCode, fault, ints, childCode, fs,
                   buildStatus, conn, thr, probe>>

\* a handler that catches every exception, not only KeyboardInterrupt
SpawnFails_caught ==
    /\ script = "Testing.py" /\ pc = "try"
    /\ fault' = "nocmd"
    /\ out' = Append(out, "Server stopped")
    /\ exitCode' = 0
    /\ pc' = "exited"
    /\ UNCHANGED <<script, ints, child, childCode, spawned, fs,
                   buildStatus, conn, thr, probe>>

\* line 17, npm cannot be started: FileNotFoundError is not caught
SpawnFails ==
    /\ script = "Testing.py" /\ pc = "try"
    /\ fault' = "nocmd"
    /\ exitCode' = 1
    /\ pc' = "exited"
    /\ UNCHANGED <<script, out, ints, child, childCode, spawned, fs,
                   buildStatus, conn, thr, probe>>

\* the child ends by itself
ChildExits(c) ==
    /\ script = "Testing.py" /\ pc = "run" /\ child = "running"
    /\ child' = "exited"
    /\ childCode' = c
    /\ UNCHANGED <<script, pc, out, exitCode, fault, ints, spawned, fs,
                   buildStatus, conn, thr, probe>>

\* the launcher exiting with the child's return code
RunReturns_propagate ==
    /\ script = "Testing.py" /\ pc = "run" /\ child = "exited"
    /\ pc' = "exited"
    /\ exitCode' = childCode
    /\ UNCHANGED <<script, out, fault, ints, child, childCode, spawned, fs,
                   buildStatus, conn, thr, probe>>

\* line 17 returns a CompletedProcess nobody looks at; the script ends
RunReturns ==
    /\ script = "Testing.py" /\ pc = "run" /\ child = "exited"
    /\ pc' = "exited"
    /\ exitCode' = 0
    /\ UNCHANGED <<script, out, fault, ints, child, childCode, spawned, fs,
                   buildStatus, conn, thr, probe>>

\* SIGINT: inside the try block (lines 16-20) it is caught, subprocess.run
\* having killed the child; before it the KeyboardInterrupt is uncaught
LauncherInterrupt ==
    /\ script = "Testing.py" /\ pc \in {"print", "try", "run"}
    /\ ints' = ints \cup {pc}
    /\ pc' = "exited"
    /\ IF pc = "print"
       THEN /\ exitCode' \in UncaughtInterrupt
            /\ fault' = "sigint"
            /\ UNCHANGED <<out, child>>
       ELSE /\ out' = Append(out, "Server stopped")
            /\ exitCode' = 0
            /\ child' = IF child = "running" THEN "killed" ELSE child
            /\ UNCHANGED fault
    /\ UNCHANGED <<script, childCode, spawned, fs, buildStatus, conn, thr, probe>>

\* ------------------------------------------------------------ server.py
\* lines 29-30
PrintBanner ==
    /\ script = "server.py" /\ pc = "banner"
    /\ out' = Append(out, "Starting")
    /\ pc' = "build"
    /\ UNCHANGED <<script, exitCode, fault, ints, child, childCode, spawned,
                   fs, buildStatus, conn, thr, probe>>

\* line 31, os.system returns once the command has ended; its value is
\* dropped.  A build that ran leaves some tree, a command that was not found
\* leaves the disk as it was.
BuildDone(status, tree) ==
    /\ script = "server.py" /\ pc = "build"
    /\ buildStatus' = status
    /\ fs' = IF status = 127 THEN fs ELSE tree
    /\ pc' = "built"
    /\ UNCHANGED <<script, out, exitCode, fault, ints, child, childCode,
                   spawned, conn, thr, probe>>

\* a listener that starts only after a successful build
StartListener_checked ==
    /\ script = "server.py" /\ pc = "built" /\ buildStatus = 0
    /\ out' = Append(out, "Build complete")
    /\ pc' = "listening"
    /\ UNCHANGED <<script, exitCode, fault, ints, child, childCode, spawned,
                   fs, buildStatus, conn, thr, probe>>

\* lines 32-36, the port is free: the listener runs
StartListener ==
    /\ script = "server.py" /\ pc = "built"
    /\ out' = Append(out, "Build complete")
    /\ pc' = "listening"
    /\ UNCHANGED <<script, exitCode, fault, ints, child, childCode, spawned,
                   fs, buildStatus, conn, thr, probe>>

\* lines 32-36, the port is taken: app.run ends the process with status 1
PortInUse ==
    /\ script = "server.py" /\ pc = "built"
    /\ out' = Append(out, "Build complete")
    /\ fault' = "port"
    /\ exitCode' = 1
    /\ pc' = "exited"
    /\ UNCHANGED <<script, ints, child, childCode, spawned, fs, buildStatus,
                   conn, thr, probe>>

\* the KeyboardInterrupt leaving app.run uncaught
ServerInterrupt_uncaught ==
    /\ script = "server.py" /\ pc \in {"banner", "build", "built", "listening"}
    /\ ints' = ints \cup {pc}
    /\ CASE pc = "build" -> UNCHANGED <<pc, exitCode, fault>>
         [] OTHER -> pc' = "exited" /\ exitCode' \in UncaughtInterrupt /\ fault' = "sigint"
    /\ UNCHANGED <<script, out, child, childCode, spawned, fs, buildStatus,
                   conn, thr, probe>>

\* SIGINT: os.system ignores it while the build runs; the listener's
\* serve_forever swallows it and app.run returns, ending the script; anywhere
\* else the KeyboardInterrupt is uncaught.  server.py prints nothing on exit.
ServerInterrupt ==
    /\ script = "server.py" /\ pc \in {"banner", "build", "built", "listening"}
    /\ ints' = ints \cup {pc}
    /\ CASE pc = "build" -> UNCHANGED <<pc, exitCode, fault>>
         [] pc = "listening" -> pc' = "exited" /\ exitCode' = 0 /\ UNCHANGED fault
         [] OTHER -> pc' = "exited" /\ exitCode' \in UncaughtInterrupt /\ fault' = "sigint"
    /\ UNCHANGED <<script, out, child, childCode, spawned, fs, buildStatus,
                   conn, thr, probe>>

\* one request handled from start to end
Request(path) ==
    /\ script = "server.py" /\ pc = "listening"
    /\ conn' = [path |-> path, resp |-> wsgi_app(fs, path)]
    /\ UNCHANGED <<script, pc, out, exitCode, fault, ints, child, childCode,
                   spawned, fs, buildStatus, thr, probe>>

Next ==
    \/ PrintInstructions
    \/ SpawnChild
    \/ SpawnFails
    \/ \E c \in 0..MaxChildCode : ChildExits(c)
    \/ RunReturns
    \/ LauncherInterrupt
    \/ PrintBanner
    \/ \E status \in BuildStatuses, tree \in Trees : BuildDone(status, tree)
    \/ StartListener
    \/ PortInUse
    \/ ServerInterrupt
    \/ \E path \in Paths : Request(path)

Spec == Init /\ [][Next]_vars

\* ------------------------------------------- server.py, threaded listener
\* app.run(threaded=True): every connection is handled by a thread of its
\* own, which runs serve and add_header step by step next to the others.
\* The listener is up: the state is the one StartListener leaves.
\* Request paths of the concurrent requests: every path of at most one
\* segment, and one path for each other way a request can be answered (a file
\* in a subdirectory, the static rule, a file outside the tree).
ThreadPaths ==
    SeqsUpTo(1) \cup {<<"assets", "style.css">>, <<"dist", "style.css">>, <<"..", "server.py">>}

InitThreaded ==
    /\ script = "server.py"
    /\ pc = "listening"
    /\ out = <<"Starting", "Build complete">>
    /\ exitCode = Running
    /\ fault = "none"
    /\ ints = {}
    /\ child = "none"
    /\ childCode = NotRun
    /\ spawned = 0
    /\ fs \in Trees
    /\ buildStatus = 0
    /\ conn = NoConn
    /\ thr = [t \in Threads |-> Idle]
    /\ probe = NoProbe

\* the path kept in one place for all threads: the one of the first busy thread
request_path_shared(t) == thr[CHOOSE u \in Threads : thr[u].st # "idle"].path

\* the path argument of the call of serve that thread t runs
request_path(t) == thr[t].path

\* the request is routed; serve evaluates its condition (line 16)
ThreadCheck(t, path) ==
    /\ pc = "listening" /\ thr[t].st = "idle"
    /\ thr' = [thr EXCEPT ![t] =
            [st |-> "checked", path |-> path,
             ex |-> path # <<>> /\ exists(fs, static_folder, path),
             resp |-> NoResponse]]
    /\ UNCHANGED <<script, pc, out, exitCode, fault, ints, child, childCode,
                   spawned, fs, buildStatus, conn, probe>>

\* the file is sent (line 17 or line 18; the static rule for dist/...) and
\* add_header runs on the response
ThreadSend(t) ==
    /\ pc = "listening" /\ thr[t].st = "checked"
    /\ LET path == request_path(t)
           r == IF Len(path) >= 2 /\ path[1] = "dist"
                THEN send_static_file(fs, Tail(path))
                ELSE IF thr[t].ex
                     THEN send_from_directory(fs, static_folder, path)
                     ELSE send_file(fs, static_folder \o <<"index.html">>)
       IN  thr' = [thr EXCEPT ![t].st = "done", ![t].resp = add_header(r)]
    /\ UNCHANGED <<script, pc, out, exitCode, fault, ints, child, childCode,
                   spawned, fs, buildStatus, conn, probe>>

\* the response is on the wire, the thread ends
ThreadClose(t) ==
    /\ pc = "listening" /\ thr[t].st = "done"
    /\ thr' = [thr EXCEPT ![t] = Idle]
    /\ UNCHANGED <<script, pc, out, exitCode, fault, ints, child, childCode,
                   spawned, fs, buildStatus, conn, probe>>

NextThreaded ==
    \/ \E t \in Threads, path \in ThreadPaths : ThreadCheck(t, path)
    \/ \E t \in Threads : ThreadSend(t)
    \/ \E t \in Threads : ThreadClose(t)

SpecThreaded == InitThreaded /\ [][NextThreaded]_vars

\* ------------------------------------------------- add_header on its own
ApplicationXAssets == <<"a","p","p","l","i","c","a","t","i","o","n","/","x","-","a","s","s","e","t","s">>
AssetsPlusJson == <<"a","s","s","e","t","s","+","j","s","o","n">>
ApplicationXAsset == <<"a","p","p","l","i","c","a","t","i","o","n","/","x","-","a","s","s","e","t">>
UpperAssets == <<"t","e","x","t","/","A","S","S","E","T","S">>

\* Content-Type values a response can carry, each with whether the string
\* 'assets' occurs in it, told by reading the value
ProbeTypes ==
    { [ct |-> TextHtml, assets |-> FALSE], [ct |-> TextCss, assets |-> FALSE],
      [ct |-> TextPython, assets |-> FALSE], [ct |-> OctetStream, assets |-> FALSE],
      [ct |-> ApplicationXAssets, assets |-> TRUE], [ct |-> AssetsPlusJson, assets |-> TRUE],
      [ct |-> ApplicationXAsset, assets |-> FALSE], [ct |-> UpperAssets, assets |-> FALSE] }

ProbeStatuses == {200, 404, 500}

\* responses with a Content-Type, and responses without one
ProbeInputs ==
    { [before |-> Response(st, "body", ty.ct), assets |-> ty.assets] :
        st \in ProbeStatuses, ty \in ProbeTypes }
    \cup { [before |-> [status |-> st, body |-> "body", headers |-> NoHeaders],
            assets |-> FALSE] : st \in ProbeStatuses }

InitHeader ==
    /\ script = "server.py"
    /\ pc = "listening"
    /\ out = <<"Starting", "Build complete">>
    /\ exitCode = Running
    /\ fault = "none"
    /\ ints = {}
    /\ child = "none"
    /\ childCode = NotRun
    /\ spawned = 0
    /\ fs = FullTree
    /\ buildStatus = 0
    /\ conn = NoConn
    /\ thr = [t \in Threads |-> Idle]
    /\ \E path \in Paths, i \in ProbeInputs :
          probe = [path |-> path, before |-> i.before, assets |-> i.assets,
                   after |-> NoResponse, done |-> FALSE]

ApplyAddHeader ==
    /\ ~probe.done
    /\ probe' = [probe EXCEPT !.after = add_header(probe.before), !.done = TRUE]
    /\ UNCHANGED <<script, pc, out, exitCode, fault, ints, child, childCode,
                   spawned, fs, buildStatus, conn, thr>>

NextHeader == ApplyAddHeader

SpecHeader == InitHeader /\ [][NextHeader]_vars

\* ------------------------------------------------------------ properties
Answered == conn.resp.status # 0
Target(path) == Walk(fs, static_folder, path)
InsideTree(abs) ==
    Len(abs) > Len(static_folder) /\ SubSeq(abs, 1, Len(static_folder)) = static_folder
ExistingFile(path) == path # <<>> /\ Target(path).ok /\ isfile(fs, Target(path).at)
EntryDocument == static_folder \o <<"index.html">>
UnderStaticRule(path) == Len(path) >= 2 /\ path[1] = "dist"
StaysInside(path) == normpath(path) = <<>> \/ normpath(path)[1] # ".."
Printed(msg) == \E i \in 1..Len(out) : out[i] = msg

\* C1 as stated: whenever join(asset_root, p) is an existing file, the
\* response to GET /p is 200 with that file's bytes.
C1_Original ==
    (Answered /\ ExistingFile(conn.path))
        => (conn.resp.status = 200 /\ conn.resp.body = fs[Target(conn.path).at])

\* C1 amended: for a non-empty path p that is not under the static URL prefix
\* dist/ and whose segments never step above the asset root, if
\* join(asset_root, p) is an existing file, the response is 200 with that
\* file's bytes.
C1_FileServed ==
    (Answered /\ ExistingFile(conn.path) /\ ~UnderStaticRule(conn.path)
        /\ StaysInside(conn.path))
        => (conn.resp.status = 200 /\ conn.resp.body = fs[Target(conn.path).at])

C1_Witness ==
    /\ Answered /\ ExistingFile(conn.path) /\ StaysInside(conn.path)
    /\ conn.path = <<"assets", "style.css">>
    /\ isfile(fs, EntryDocument)
    /\ conn.resp.body # fs[EntryDocument]

\* C2 as stated: every request path that does not correspond to a file under
\* the asset tree is answered 200 with the bytes of index.html.
C2_Original ==
    (Answered /\ isfile(fs, EntryDocument)
        /\ ~(ExistingFile(conn.path) /\ InsideTree(Target(conn.path).at)))
        => (conn.resp.status = 200 /\ conn.resp.body = fs[EntryDocument])

\* C3: every response, error responses included, carries the four headers.
C3_AllHeaders ==
    Answered =>
        /\ {"Cache-Control", "X-Content-Type-Options", "X-Frame-Options",
            "X-XSS-Protection"} \subseteq DOMAIN conn.resp.headers
        /\ conn.resp.headers["Cache-Control"] \in {LongCache, NoCache}
        /\ conn.resp.headers["X-Content-Type-Options"] = "nosniff"
        /\ conn.resp.headers["X-Frame-Options"] = "DENY"
        /\ conn.resp.headers["X-XSS-Protection"] = "1; mode=block"

C3_Witness ==
    /\ Answered /\ conn.resp.status = 500
    /\ "X-Frame-Options" \in DOMAIN conn.resp.headers

\* C4: Cache-Control is the long-lived value exactly when the Content-Type of
\* the response contains 'assets', and 'no-cache' otherwise, also without a
\* Content-Type; the request path plays no part.
C4_CacheByContentType ==
    probe.done =>
        /\ probe.after.headers["Cache-Control"] = (IF probe.assets THEN LongCache ELSE NoCache)
        /\ probe.after.status = probe.before.status
        /\ probe.after.body = probe.before.body

C4_Witness ==
    /\ probe.done
    /\ probe.path = <<"assets", "style.css">>
    /\ probe.before.headers = ("Content-Type" :> TextCss)
    /\ probe.after.headers["Cache-Control"] = NoCache

\* C5 as stated: an interrupt received while a component does its work (the
\* launcher waits for the child, the server listens) ends it with status 0,
\* its shutdown message printed.
C5_Original ==
    (pc = "exited" /\ ints \cap {"try", "run", "listening"} # {})
        => (exitCode = 0 /\ Printed("Server stopped"))

\* C5 amended: interrupted while it waits for the child, the launcher exits
\* with status 0 having printed its shutdown message last; interrupted while
\* it listens, the server exits with status 0 and prints no shutdown message.
C5_InterruptExit ==
    (pc = "exited" /\ ints \cap {"try", "run", "listening"} # {})
        => /\ exitCode = 0
           /\ script = "Testing.py" => out[Len(out)] = "Server stopped"
           /\ script = "server.py" => out = <<"Starting", "Build complete">>

C5_Witness ==
    script = "server.py" /\ pc = "exited" /\ "listening" \in ints /\ Answered

\* C6: the listener runs, and requests are answered, only once the build
\* command has returned; after the build the listener can start whatever
\* status the build returned.
C6_ListenAfterBuild ==
    /\ (pc = "listening" \/ Answered) => buildStatus # NotRun
    /\ pc \in {"banner", "build"} => buildStatus = NotRun
    /\ pc = "built" => ENABLED StartListener

C6_Witness ==
    pc = "listening" /\ buildStatus = 1 /\ Answered

\* C7: the launcher starts one child, after its instructions, is alive while
\* the child runs, and exits with 0 when the child has ended by itself,
\* whatever the child's exit code.
C7_Launcher ==
    script = "Testing.py" =>
        /\ spawned = (IF child = "none" THEN 0 ELSE 1)
        /\ child # "none" => out[1] = "instructions"
        /\ child = "running" => pc = "run"
        /\ (pc = "exited" /\ child = "exited") => exitCode = 0

C7_Witness ==
    script = "Testing.py" /\ pc = "exited" /\ child = "exited" /\ childCode = 2
        /\ ints = {}

\* C8 as stated: a command that is missing or fails, and a port in use, end
\* the process with a non-zero status; in particular no listener runs after a
\* build command that was missing or failed.
C8_Original ==
    /\ fault \in {"nocmd", "port"} => (pc = "exited" /\ exitCode \notin {Running, 0})
    /\ buildStatus \notin {NotRun, 0} => pc \in {"built", "exited"}
    /\ (buildStatus \notin {NotRun, 0} /\ pc = "exited") => exitCode \notin {Running, 0}

\* C8 amended: the launcher's command failing to start, and the server's port
\* being taken, end the process with a non-zero status and nothing is tried
\* again; a missing or failed build command does not end the server.
C8_Faults ==
    /\ fault \in {"nocmd", "port"} => (pc = "exited" /\ exitCode \notin {Running, 0})
    /\ fault = "nocmd" => (spawned = 0 /\ child = "none")
    /\ fault = "port" => ~Answered
    /\ (pc = "exited" /\ exitCode # 0) => fault \in {"nocmd", "port", "sigint"}
    /\ pc = "exited" => ~ENABLED Next

C8_Witness ==
    pc = "exited" /\ fault = "nocmd" /\ exitCode = 1

\* C9: no response body is the bytes of a file outside the asset tree; every
\* 200 response carries the bytes of a file inside it.
C9_NoEscape ==
    Answered =>
        /\ \A abs \in DOMAIN fs :
              (isfile(fs, abs) /\ ~InsideTree(abs)) => conn.resp.body # fs[abs]
        /\ conn.resp.status = 200 =>
              \E abs \in DOMAIN fs :
                  isfile(fs, abs) /\ InsideTree(abs) /\ conn.resp.body = fs[abs]

C9_Witness ==
    /\ Answered /\ ExistingFile(conn.path) /\ ~InsideTree(Target(conn.path).at)
    /\ conn.path[1] = ".."
    /\ conn.resp.status = 404

\* C10: the disk is never written, and a request handled next to others gets
\* the response it gets when handled alone.
C10_Independent ==
    /\ [](\A t \in Threads : thr[t].st = "done" => thr[t].resp = wsgi_app(fs, thr[t].path))
    /\ [][fs' = fs]_vars

C10_Witness ==
    /\ thr[1].st = "done" /\ thr[2].st = "checked"
    /\ thr[1].path # thr[2].path
    /\ thr[1].resp.status = 200 /\ thr[2].ex
====
